---- MODULE Spec2Model ----
(***************************************************************************)
(* Tree Explorer of GovChat: the incremental dataset-relationship graph.   *)
(*                                                                         *)
(* The model follows TreeExplorerContent (tree-explorer.tsx) and the       *)
(* DatasetNode renderer that calls back into it.  React state is the       *)
(* model's state; every handler runs to completion together with the       *)
(* render and the effects it triggers (React 18 batches the updates of a   *)
(* handler and flushes them before the next event).  The only suspension   *)
(* point is the await of chatAPI.getSimilarDatasets in handleNodeExpand.   *)
(*                                                                         *)
(* A useCallback closure is modelled by the values it captured: the        *)
(* handleNodeExpand stored in a node's data.onExpand reads the             *)
(* expandedNodes / loadingNodes of the render that created it.             *)
(***************************************************************************)
EXTENDS Integers, Sequences, FiniteSets, Bags, TLC

\* ------------------------------------------------------------- bounds
MaxHits == 2          \* longest initialDatasets list
MaxChildren == 2      \* longest `similar` list a resolver call returns
MaxNodes == 5         \* no resolver result grows the graph past this
MaxPending == 2       \* resolver calls in flight at once

\* ------------------------------------------------- program constants
SPACING_X == 160      \* half of 320: (index - (n-1)/2) * 320
ROW_HEIGHT == 280
ROOT_SPACING_X == 200 \* half of 400: (index - (n-1)/2) * 400
ROOT_ROW_HEIGHT == 200
PlaceholderChildCount == 3
MaxRandomChildCount == 4

\* --------------------------------------------------------- input sets
Undefined == -1                     \* a number field that is undefined
HitIds == {"abc", "def"}            \* ids an upstream hit may carry
NoId == ""                          \* RetrievedSource.id absent
ResolverIds == {"abc", "x1"}        \* ids a SimilarDataset may carry
Queries == {"q1"}                   \* the question of the first message

SeqsUpTo(S, n) == UNION {[1..k -> S] : k \in 0..n}

\* lists of hits (each hit is its optional id); ids that are present are
\* distinct, and the first id a list carries is "abc"
HitLists ==
  {h \in SeqsUpTo(HitIds \cup {NoId}, MaxHits) :
     /\ \A i, j \in DOMAIN h : (i # j /\ h[i] # NoId) => h[i] # h[j]
     /\ \A i \in DOMAIN h : h[i] = "def" => \E j \in 1..(i - 1) : h[j] = "abc"}

\* `similar` lists of a resolver response: distinct dataset ids
SimilarLists ==
  {s \in SeqsUpTo(ResolverIds, MaxChildren) :
     \A i, j \in DOMAIN s : i # j => s[i] # s[j]}

VARIABLES
  initialQuery,     \* prop
  initialDatasets,  \* prop: list of hits
  nodes,            \* useNodesState: sequence of nodes
  edges,            \* useEdgesState: sequence of edges
  expandedNodes,    \* useState<Set<string>>
  loadingNodes,     \* useState<Set<string>>
  isInitialized,    \* useState(false)
  pending,          \* bag of getSimilarDatasets calls awaiting their result
  failedNodes,      \* history: ids of the nodes a thrown call has settled
  renderError,      \* a state updater threw while React rendered
  fitViewFor        \* history: ids whose expansion has scheduled a fitView

vars == <<initialQuery, initialDatasets, nodes, edges, expandedNodes,
          loadingNodes, isInitialized, pending, failedNodes, renderError,
          fitViewFor>>

\* ------------------------------------------------------------ closures
\* the handleNodeExpand of a render, by the state it closed over
Closure(E, L) == [bound |-> TRUE, expandedNodes |-> E, loadingNodes |-> L]

\* data.onExpand undefined (the root node)
NoCallback == [bound |-> FALSE, expandedNodes |-> {}, loadingNodes |-> {}]

startsWith(s, prefix) ==
  /\ Len(s) >= Len(prefix)
  /\ SubSeq(s, 1, Len(prefix)) = prefix

\* ------------------------------------------------------ initializeTree
\* the root node carrying the dataset id of a hit
rootNodeCarryingHit(query) ==
  [id |-> "root", title |-> query, datasetId |-> "abc", isRoot |-> TRUE,
   isExpanded |-> TRUE, isLoading |-> FALSE, childCount |-> Undefined,
   position |-> [x |-> 0, y |-> 0], onExpand |-> NoCallback]

rootNode(query) ==
  [id |-> "root", title |-> query, datasetId |-> NoId, isRoot |-> TRUE,
   isExpanded |-> TRUE, isLoading |-> FALSE, childCount |-> Undefined,
   position |-> [x |-> 0, y |-> 0], onExpand |-> NoCallback]

\* dataset.id || `dataset-${index}` (index is 0-based)
hitNodeId(id, index) == IF id # NoId THEN id ELSE "dataset-" \o ToString(index)

\* datasetNodes with the placeholder childCount given to every hit
datasetNodesAllExpandable(hits, onExpand) ==
  [i \in 1..Len(hits) |->
     [id |-> hitNodeId(hits[i], i - 1),
      title |-> "hit",
      datasetId |-> hitNodeId(hits[i], i - 1),
      isRoot |-> FALSE,
      isExpanded |-> FALSE,
      isLoading |-> FALSE,
      childCount |-> PlaceholderChildCount,
      position |-> [x |-> (2 * (i - 1) - (Len(hits) - 1)) * ROOT_SPACING_X,
                    y |-> ROOT_ROW_HEIGHT],
      onExpand |-> onExpand]]

datasetNodes(hits, onExpand) ==
  [i \in 1..Len(hits) |->
     [id |-> hitNodeId(hits[i], i - 1),
      title |-> "hit",
      datasetId |-> hitNodeId(hits[i], i - 1),
      isRoot |-> FALSE,
      isExpanded |-> FALSE,
      isLoading |-> FALSE,
      childCount |-> IF hits[i] # NoId THEN PlaceholderChildCount ELSE 0,
      position |-> [x |-> (2 * (i - 1) - (Len(hits) - 1)) * ROOT_SPACING_X,
                    y |-> ROOT_ROW_HEIGHT],
      onExpand |-> onExpand]]

\* initialEdges with the edge target taken from dataset.id alone
initialEdgesNoFallback(hits) ==
  [i \in 1..Len(hits) |->
     [id |-> "root-" \o (IF hits[i] # NoId THEN hits[i] ELSE ToString(i - 1)),
      source |-> "root",
      target |-> hits[i]]]

\* `root-${dataset.id || index}`
initialEdges(hits) ==
  [i \in 1..Len(hits) |->
     [id |-> "root-" \o (IF hits[i] # NoId THEN hits[i] ELSE ToString(i - 1)),
      source |-> "root",
      target |-> hitNodeId(hits[i], i - 1)]]

seedNodes(query, hits, onExpand) == <<rootNode(query)>> \o datasetNodes(hits, onExpand)

\* ------------------------------------------------------------- Init
\* first render, then the mount effect: initializeTree runs when there are hits
Init ==
  /\ initialQuery \in Queries
  /\ initialDatasets \in HitLists
  /\ expandedNodes = {}
  /\ loadingNodes = {}
  /\ pending = EmptyBag
  /\ failedNodes = {}
  /\ renderError = FALSE
  /\ fitViewFor = {}
  /\ IF Len(initialDatasets) > 0
       THEN /\ nodes = seedNodes(initialQuery, initialDatasets, Closure({}, {}))
            /\ edges = initialEdges(initialDatasets)
            /\ isInitialized = TRUE
       ELSE /\ nodes = <<>>
            /\ edges = <<>>
            /\ isInitialized = FALSE

\* an error thrown while rendering unmounts the tree: no handler runs after it
Mounted == ~renderError

\* ------------------------------------------------- DatasetNode (renderer)
\* the Explore button is rendered for childCount > 0 and is disabled
\* while the node is loading or expanded; the root renders no button
ExploreButtonEnabled(data) ==
  /\ ~data.isRoot
  /\ data.childCount # Undefined
  /\ data.childCount > 0
  /\ ~(data.isLoading \/ data.isExpanded)

\* ---------------------------------------------------- handleNodeExpand
\* the nodes a call for datasetId acts on: node.data.datasetId === datasetId
Carrying(ns, datasetId) == {i \in DOMAIN ns : ns[i].datasetId = datasetId}

\* the two early returns of handleNodeExpand; `self` is the closure called
guardRejects(self, datasetId) ==
  \/ datasetId = NoId
  \/ startsWith(datasetId, "dataset-")
  \/ datasetId \in self.expandedNodes
  \/ datasetId \in self.loadingNodes

Request(self, datasetId) == [datasetId |-> datasetId, self |-> self, stale |-> FALSE]

\* handleNodeExpand up to its await
handleNodeExpand(self, datasetId) ==
  IF guardRejects(self, datasetId)
    THEN UNCHANGED vars
    ELSE /\ loadingNodes' = loadingNodes \cup {datasetId}
         /\ nodes' = [i \in DOMAIN nodes |->
                        IF nodes[i].datasetId = datasetId
                          THEN [nodes[i] EXCEPT !.isLoading = TRUE]
                          ELSE nodes[i]]
         /\ pending' = pending (+) SetToBag({Request(self, datasetId)})
         /\ UNCHANGED <<initialQuery, initialDatasets, edges, expandedNodes,
                        isInitialized, failedNodes, renderError, fitViewFor>>

\* DatasetNode.handleExpand
handleExpand(data) ==
  IF data.onExpand.bound /\ data.datasetId # NoId
    THEN handleNodeExpand(data.onExpand, data.datasetId)
    ELSE UNCHANGED vars

\* a click on the Explore button of node i
ClickExplore(i) ==
  /\ Mounted
  /\ BagCardinality(pending) < MaxPending
  /\ ExploreButtonEnabled(nodes[i])
  /\ handleExpand(nodes[i])

\* first node carrying the dataset id: currentNodes.find(...)
findIndex(ns, datasetId) ==
  LET hits == {i \in DOMAIN ns : ns[i].datasetId = datasetId}
  IN IF hits = {} THEN 0 ELSE CHOOSE i \in hits : \A j \in hits : i <= j

childNodeId(datasetId, childDatasetId) ==
  "child-" \o datasetId \o "-" \o childDatasetId

\* the child position with the index counted from 1
childPositionOneBased(parentPos, index, n) ==
  [x |-> parentPos.x + (2 * (index + 1) - (n - 1)) * SPACING_X,
   y |-> parentPos.y + ROW_HEIGHT]

\* position of child `index` (0-based) of n:
\* x = parent.x + (index - (n - 1) / 2) * 320, y = parent.y + 280
childPosition(parentPos, index, n) ==
  [x |-> parentPos.x + (2 * index - (n - 1)) * SPACING_X,
   y |-> parentPos.y + ROW_HEIGHT]

\* the child nodes of one response; counts[i] is Math.floor(Math.random()*4)+1
childNodes(parentNode, datasetId, similar, counts, self) ==
  [i \in 1..Len(similar) |->
     [id |-> childNodeId(datasetId, similar[i]),
      title |-> "similar",
      datasetId |-> similar[i],
      isRoot |-> FALSE,
      isExpanded |-> FALSE,
      isLoading |-> FALSE,
      childCount |-> counts[i],
      position |-> childPosition(parentNode.position, i - 1, Len(similar)),
      onExpand |-> self]]

\* childEdges with the target built from the id of the parent node
childEdgesByNodeId(parentNode, datasetId, similar) ==
  [i \in 1..Len(similar) |->
     [id |-> "edge-" \o parentNode.id \o "-" \o childNodeId(parentNode.id, similar[i]),
      source |-> parentNode.id,
      target |-> childNodeId(parentNode.id, similar[i])]]

childEdges(parentNode, datasetId, similar) ==
  [i \in 1..Len(similar) |->
     [id |-> "edge-" \o parentNode.id \o "-" \o childNodeId(datasetId, similar[i]),
      source |-> parentNode.id,
      target |-> childNodeId(datasetId, similar[i])]]

\* a filter in place of the map: only the nodes carrying the id are kept
settleNodesFiltered(ns, datasetId, count) ==
  LET carries(n) == n.datasetId = datasetId
      kept == SelectSeq(ns, carries)
  IN [i \in DOMAIN kept |->
        [kept[i] EXCEPT !.isExpanded = TRUE, !.isLoading = FALSE,
                        !.childCount = count]]

\* the map over the nodes that settles every node carrying the dataset id
settleNodes(ns, datasetId, count) ==
  [i \in DOMAIN ns |->
     IF ns[i].datasetId = datasetId
       THEN [ns[i] EXCEPT !.isExpanded = TRUE, !.isLoading = FALSE,
                          !.childCount = count]
       ELSE ns[i]]

finally(datasetId) == loadingNodes' = loadingNodes \ {datasetId}

\* setTimeout(() => fitView(...), 300): the re-fit of the viewport
scheduleFitView(datasetId) == fitViewFor' = fitViewFor \cup {datasetId}

\* the await returns a response with a non-empty `similar`
ResolveSimilar(r, similar, counts) ==
  /\ Mounted
  /\ r \in BagToSet(pending)
  /\ Len(similar) > 0
  /\ Len(nodes) + Len(similar) <= MaxNodes
  /\ pending' = pending (-) SetToBag({r})
  /\ LET p == findIndex(nodes, r.datasetId)
     IN IF p = 0
          THEN UNCHANGED <<nodes, edges>>
          ELSE /\ nodes' = settleNodes(nodes, r.datasetId, Len(similar))
                             \o childNodes(nodes[p], r.datasetId, similar, counts, r.self)
               /\ edges' = edges \o childEdges(nodes[p], r.datasetId, similar)
  /\ expandedNodes' = expandedNodes \cup {r.datasetId}
  /\ scheduleFitView(r.datasetId)
  /\ finally(r.datasetId)
  /\ UNCHANGED <<initialQuery, initialDatasets, isInitialized, failedNodes,
                 renderError>>

\* the await returns null, or a response whose `similar` is missing or empty
ResolveEmpty(r) ==
  /\ Mounted
  /\ r \in BagToSet(pending)
  /\ pending' = pending (-) SetToBag({r})
  /\ nodes' = settleNodes(nodes, r.datasetId, 0)
  /\ finally(r.datasetId)
  /\ UNCHANGED <<initialQuery, initialDatasets, edges, expandedNodes, isInitialized,
                 failedNodes, renderError, fitViewFor>>

\* the await throws: the catch block
ResolveFail(r) ==
  /\ Mounted
  /\ r \in BagToSet(pending)
  /\ pending' = pending (-) SetToBag({r})
  /\ nodes' = settleNodes(nodes, r.datasetId, 0)
  /\ finally(r.datasetId)
  /\ failedNodes' = failedNodes \cup {nodes[i].id : i \in Carrying(nodes, r.datasetId)}
  /\ UNCHANGED <<initialQuery, initialDatasets, edges, expandedNodes, isInitialized,
                 renderError, fitViewFor>>

\* the await returns a payload that passes the test of line 123 (`similar` has
\* a length above 0) but is no list of datasets: an entry is null, or `similar`
\* is a string.  The setNodes updater returns early when no node carries the
\* id; otherwise its `similar.map` throws, and it throws while React renders,
\* outside the try block of handleNodeExpand
ResolveMalformed(r) ==
  /\ Mounted
  /\ r \in BagToSet(pending)
  /\ pending' = pending (-) SetToBag({r})
  /\ IF findIndex(nodes, r.datasetId) = 0
       THEN /\ expandedNodes' = expandedNodes \cup {r.datasetId}
            /\ finally(r.datasetId)
            /\ UNCHANGED renderError
       ELSE /\ renderError' = TRUE
            /\ UNCHANGED <<expandedNodes, loadingNodes>>
  /\ scheduleFitView(r.datasetId)
  /\ UNCHANGED <<initialQuery, initialDatasets, nodes, edges, isInitialized,
                 failedNodes>>

\* -------------------------------------------------------- handleReset
\* every call in flight was begun before this reset
markStale(bag) ==
  LET M == {[r EXCEPT !.stale = TRUE] : r \in BagToSet(bag)}
  IN [m \in M |-> CopiesIn(m, bag) + CopiesIn([m EXCEPT !.stale = FALSE], bag)]

\* handleReset, the render it causes and the init effect of that render.
\* The initializeTree that handleReset calls closed over the isInitialized
\* and the handleNodeExpand of the render that created handleReset.
handleReset ==
  /\ Mounted
  /\ expandedNodes' = {}
  /\ loadingNodes' = {}
  /\ pending' = markStale(pending)
  /\ failedNodes' = {}
  /\ IF ~isInitialized
       THEN \* initializeTree() runs inside the handler
            /\ nodes' = seedNodes(initialQuery, initialDatasets,
                                  Closure(expandedNodes, loadingNodes))
            /\ edges' = initialEdges(initialDatasets)
            /\ isInitialized' = TRUE
       ELSE IF Len(initialDatasets) > 0
         THEN \* initializeTree() returned early; the effect runs the new one
              /\ nodes' = seedNodes(initialQuery, initialDatasets, Closure({}, {}))
              /\ edges' = initialEdges(initialDatasets)
              /\ isInitialized' = TRUE
         ELSE /\ isInitialized' = FALSE
              /\ UNCHANGED <<nodes, edges>>
  /\ fitViewFor' = {}
  /\ UNCHANGED <<initialQuery, initialDatasets, renderError>>

\* Math.floor(Math.random() * 4) + 1 lies in 1..4; the draws explored are
\* the lowest and the highest
RandomDraws == {1, MaxRandomChildCount}

RandomCounts(n) == [1..n -> RandomDraws]

Next ==
  \/ \E i \in DOMAIN nodes : ClickExplore(i)
  \/ \E r \in BagToSet(pending) : \E similar \in SimilarLists :
       \E counts \in RandomCounts(Len(similar)) : ResolveSimilar(r, similar, counts)
  \/ \E r \in BagToSet(pending) : ResolveEmpty(r)
  \/ \E r \in BagToSet(pending) : ResolveFail(r)
  \/ \E r \in BagToSet(pending) : ResolveMalformed(r)
  \/ handleReset

Spec == Init /\ [][Next]_vars

\* ----------------------------------------------------- a new latest message
MaxMessages == 1      \* messages that arrive after the first
MaxMessageHits == 1   \* longest hit list of a later message

\* the question of the k-th message
Question(k) == "q" \o ToString(k)

MessageHitLists == {h \in HitLists : Len(h) <= MaxMessageHits}

\* GovChat renders the explorer with the question and the hits of the latest
\* message: new props, a render, and the init effect of that render
NewMessage(k, hits) ==
  /\ Mounted
  /\ initialQuery = Question(k)
  /\ initialQuery' = Question(k + 1)
  /\ initialDatasets' = hits
  /\ IF ~isInitialized /\ Len(hits) > 0
       THEN /\ nodes' = seedNodes(Question(k + 1), hits,
                                  Closure(expandedNodes, loadingNodes))
            /\ edges' = initialEdges(hits)
            /\ isInitialized' = TRUE
            /\ pending' = markStale(pending)
       ELSE UNCHANGED <<nodes, edges, isInitialized, pending>>
  /\ UNCHANGED <<expandedNodes, loadingNodes, failedNodes, renderError, fitViewFor>>

\* a call in flight returns, with any outcome
Settle ==
  \E r \in BagToSet(pending) :
    \/ \E similar \in SimilarLists : \E counts \in RandomCounts(Len(similar)) :
         ResolveSimilar(r, similar, counts)
    \/ ResolveEmpty(r)
    \/ ResolveFail(r)
    \/ ResolveMalformed(r)

NextProps ==
  \/ Next
  \/ \E k \in 1..MaxMessages : \E hits \in MessageHitLists : NewMessage(k, hits)

\* every promise of getSimilarDatasets settles
SpecProps == Init /\ [][NextProps]_vars /\ WF_vars(Settle)

\* the dataset ids a node may carry
DatasetIds == HitIds \cup ResolverIds

\* a call in flight for the dataset id returns, with any outcome
SettleOf(datasetId) ==
  \E r \in BagToSet(pending) :
    /\ r.datasetId = datasetId
    /\ \/ \E similar \in SimilarLists : \E counts \in RandomCounts(Len(similar)) :
            ResolveSimilar(r, similar, counts)
       \/ ResolveEmpty(r)
       \/ ResolveFail(r)
       \/ ResolveMalformed(r)

\* Spec, with the promise of every getSimilarDatasets call settling
SpecFair == Spec /\ \A d \in DatasetIds : WF_vars(SettleOf(d))

\* ------------------------------------------------- layout of one expansion
MaxLayoutChildren == 3

\* positions a parent node may have been dragged to (onNodesChange)
LayoutXs == {-400, 0, 130}
LayoutYs == {0, 200, 480}

LayoutList(n) == [i \in 1..n |-> "x" \o ToString(i)]

\* one hit node at any position, its resolver call in flight
LayoutInit ==
  /\ initialQuery \in Queries
  /\ initialDatasets = <<"abc">>
  /\ expandedNodes = {}
  /\ loadingNodes = {"abc"}
  /\ pending = SetToBag({Request(Closure({}, {}), "abc")})
  /\ failedNodes = {}
  /\ renderError = FALSE
  /\ fitViewFor = {}
  /\ isInitialized = TRUE
  /\ edges = initialEdges(initialDatasets)
  /\ \E x \in LayoutXs : \E y \in LayoutYs :
       nodes = [i \in 1..2 |->
                  IF i = 1
                    THEN rootNode(initialQuery)
                    ELSE [datasetNodes(initialDatasets, Closure({}, {}))[1] EXCEPT
                            !.isLoading = TRUE, !.position = [x |-> x, y |-> y]]]

LayoutNext ==
  \E r \in BagToSet(pending) : \E n \in 1..MaxLayoutChildren :
    \E counts \in RandomCounts(n) : ResolveSimilar(r, LayoutList(n), counts)

LayoutSpec == LayoutInit /\ [][LayoutNext]_vars

\* ================================================================ claims
\* the spec's names for the tracking sets
pendingIds == loadingNodes
expandedIds == expandedNodes

\* the spec's expansionState, read from the flags the code keeps
expansionState(data) ==
  IF data.isLoading THEN "expanding"
  ELSE IF data.isExpanded THEN "expanded"
  ELSE "collapsed"

\* resolver calls begun in the current graph generation
Live == {r \in BagToSet(pending) : ~r.stale}

\* a step in which the call r returns (with any outcome)
Settles(r) == r \in BagToSet(pending) /\ pending' = pending (-) SetToBag({r})

\* C1: duplicate-expansion guard. A call of expand with an id whose resolver
\* call is still in flight is rejected, so at no time are two resolver calls
\* of the current graph in flight for the same id.
C1_OneCallInFlightPerId ==
  \A r \in Live :
    /\ CopiesIn(r, pending) = 1
    /\ \A q \in Live : q.datasetId = r.datasetId => q = r

\* C2: mutual exclusion. No id is in both pendingIds and expandedIds.
C2_PendingExpandedDisjoint == pendingIds \cap expandedIds = {}

\* C3: stale results are ignored. The result of a call begun before a reset
\* changes no node and no edge and adds nothing to expandedIds.
C3_StaleResultIgnored ==
  [][\A r \in BagToSet(pending) :
       (r.stale /\ Settles(r)) => UNCHANGED <<nodes, edges, expandedNodes>>]_vars

\* the call r is the only call of its id and exactly one node carries the id
SolePending(r) ==
  /\ r \in Live
  /\ CopiesIn(r, pending) = 1
  /\ \A q \in BagToSet(pending) : q.datasetId = r.datasetId => q = r
  /\ Cardinality(Carrying(nodes, r.datasetId)) = 1

\* the node the call r is pending for
PendingNode(r) == CHOOSE i \in Carrying(nodes, r.datasetId) : TRUE

\* C4: commit postcondition. A non-empty result of k children for the pending
\* node N adds exactly k nodes and k edges; child j has the id built from the
\* id of the node N and the child's dataset id, and its edge runs from N to it;
\* N leaves pendingIds, enters expandedIds, is expanded and has childCount k.
C4_CommitPostcondition ==
  [][\A r \in BagToSet(pending) : \A similar \in SimilarLists :
       \A counts \in RandomCounts(Len(similar)) :
         (SolePending(r) /\ ResolveSimilar(r, similar, counts)) =>
           LET N == PendingNode(r)
               k == Len(similar)
           IN /\ Len(nodes') = Len(nodes) + k
              /\ Len(edges') = Len(edges) + k
              /\ \A j \in 1..k :
                   /\ nodes'[Len(nodes) + j].id = childNodeId(nodes[N].id, similar[j])
                   /\ edges'[Len(edges) + j].source = nodes[N].id
                   /\ edges'[Len(edges) + j].target = nodes'[Len(nodes) + j].id
              /\ r.datasetId \notin pendingIds'
              /\ r.datasetId \in expandedIds'
              /\ expansionState(nodes'[N]) = "expanded"
              /\ nodes'[N].childCount = k]_vars

\* C5: resolver failure. The pending node N leaves pendingIds, is not added
\* to expandedIds, ends in a state other than expanded with childCount 0, and
\* the graph has as many nodes and edges as before.
C5_FailureOutcome ==
  [][\A r \in BagToSet(pending) :
       (SolePending(r) /\ ResolveFail(r)) =>
         LET N == PendingNode(r)
         IN /\ r.datasetId \notin pendingIds'
            /\ (r.datasetId \notin expandedIds => r.datasetId \notin expandedIds')
            /\ expansionState(nodes'[N]) # "expanded"
            /\ nodes'[N].childCount = 0
            /\ Len(nodes') = Len(nodes)
            /\ Len(edges') = Len(edges)]_vars

\* the program state a thrown call r leaves is the one an empty result leaves
SameAsFailure(r) ==
  /\ nodes' = settleNodes(nodes, r.datasetId, 0)
  /\ loadingNodes' = loadingNodes \ {r.datasetId}
  /\ UNCHANGED <<initialQuery, initialDatasets, edges, expandedNodes, isInitialized>>

\* C6: empty result. The pending node N ends expanded with childCount 0, moves
\* from pendingIds to expandedIds, no node or edge is added, and the state
\* reached differs from the one a failure of the same call reaches.
C6_EmptyOutcome ==
  [][\A r \in BagToSet(pending) :
       (SolePending(r) /\ ResolveEmpty(r)) =>
         LET N == PendingNode(r)
         IN /\ expansionState(nodes'[N]) = "expanded"
            /\ nodes'[N].childCount = 0
            /\ r.datasetId \notin pendingIds'
            /\ r.datasetId \in expandedIds'
            /\ Len(nodes') = Len(nodes)
            /\ Len(edges') = Len(edges)
            /\ ~SameAsFailure(r)]_vars

\* C7: expand on an expanded node is a no-op. A call of expand with the id of
\* a node that has settled as expanded starts no resolver call and leaves
\* nodes, edges, pendingIds and expandedIds unchanged.
C7_ExpandedIsNoOp ==
  [][\A i \in DOMAIN nodes :
       (/\ ClickExplore(i)
        /\ \E m \in Carrying(nodes, nodes[i].datasetId) :
             expansionState(nodes[m]) = "expanded")
       => UNCHANGED <<nodes, edges, pendingIds, expandedIds, pending>>]_vars

\* the nodes of the current graph that a failure has settled
FailedNodes == {m \in DOMAIN nodes : nodes[m].id \in failedNodes}

\* C8: failed is terminal. Once a failure has settled a node, no expand with
\* its id starts a resolver call, and until a reset the node never shows as
\* expanding again and its state does not change.
C8_FailedIsTerminal ==
  [][~handleReset =>
       /\ \A m \in FailedNodes :
            /\ nodes'[m] = nodes[m]
            /\ expansionState(nodes'[m]) # "expanding"
       /\ \A i \in DOMAIN nodes :
            (ClickExplore(i) /\ \E m \in FailedNodes :
                                  nodes[m].datasetId = nodes[i].datasetId)
            => pending' = pending]_vars

\* C9: NotExpandable guard. A node without a dataset id, or whose childCount
\* is 0, is never expanding and its id is never in pendingIds.
C9_NotExpandableNeverPending ==
  \A i \in DOMAIN nodes :
    (nodes[i].datasetId = NoId \/ nodes[i].childCount = 0) =>
      /\ expansionState(nodes[i]) # "expanding"
      /\ nodes[i].datasetId \notin pendingIds

\* the graph is one root, one dataset node per hit and one root edge to each
SeededShape ==
  LET n == Len(initialDatasets)
      roots == {i \in DOMAIN nodes : nodes[i].isRoot}
  IN /\ Len(nodes) = n + 1
     /\ Cardinality(roots) = 1
     /\ Len(edges) = n
     /\ \A e \in DOMAIN edges : \E i \in roots : edges[e].source = nodes[i].id
     /\ \A i \in DOMAIN nodes \ roots :
          Cardinality({e \in DOMAIN edges : edges[e].target = nodes[i].id}) = 1

\* C10: seeding. With a non-empty list of hits, the first seeding and every
\* reset leave exactly one root, len(hits) dataset nodes and len(hits) edges,
\* one from the root to each dataset node.
C10_ResetSeeds ==
  /\ (Len(initialDatasets) > 0 => SeededShape)
  /\ [][(handleReset /\ Len(initialDatasets) > 0) => SeededShape']_vars

\* a reset was made with calls in flight and hits with and without an id
C10_Witness ==
  /\ \E r \in BagToSet(pending) : r.stale
  /\ Len(initialDatasets) = 2
  /\ \E i \in DOMAIN initialDatasets : initialDatasets[i] = NoId
  /\ \A i \in DOMAIN nodes : ~nodes[i].isLoading /\ (nodes[i].isExpanded => nodes[i].isRoot)
  /\ SeededShape

\* C11: seeding with an empty hit list. After the initialization and after a
\* reset with zero hits the graph is exactly the root node, with no edge.
C11_EmptySeedCreatesRoot ==
  Len(initialDatasets) = 0 =>
    /\ nodes = <<rootNode(initialQuery)>>
    /\ edges = <<>>

\* what a snapshot shows of the nodes: every field but the callback
View(ns) ==
  [i \in DOMAIN ns |->
     [id |-> ns[i].id, title |-> ns[i].title, datasetId |-> ns[i].datasetId,
      isRoot |-> ns[i].isRoot, isExpanded |-> ns[i].isExpanded,
      isLoading |-> ns[i].isLoading, childCount |-> ns[i].childCount,
      position |-> ns[i].position]]

\* the freshly seeded graph of the current question and hits
FreshNodes == View(seedNodes(initialQuery, initialDatasets, NoCallback))

\* the nodes a reset leaves, by the isInitialized and the nodes it starts from
resetNodes(init, ns) ==
  IF ~init \/ Len(initialDatasets) > 0 THEN FreshNodes ELSE View(ns)

\* C12: reset discards everything. With no expansion in flight, a reset leaves
\* the freshly seeded graph of the current question and hits (the root, the
\* hit nodes collapsed with their initial childCount, the root edges), empty
\* pendingIds and expandedIds, and a second reset leaves the same graph.
C12_ResetDiscards ==
  [][(handleReset /\ pending = EmptyBag) =>
       /\ View(nodes') = FreshNodes
       /\ edges' = initialEdges(initialDatasets)
       /\ pendingIds' = {}
       /\ expandedIds' = {}
       /\ resetNodes(isInitialized', nodes') = View(nodes')]_vars

\* the question and the hits the graph on display was seeded from: the title
\* of its root, and the nodes its root edges lead to
GraphSeed ==
  LET k == Cardinality({e \in DOMAIN edges : edges[e].source = "root"})
  IN [query |-> nodes[1].title,
      hits |-> [i \in 1..k |-> IF startsWith(nodes[i + 1].id, "dataset-")
                                 THEN NoId ELSE nodes[i + 1].id]]

\* the graph on display is the one of the current question and hits
HoldsCurrent ==
  /\ nodes # <<>>
  /\ GraphSeed = [query |-> initialQuery, hits |-> initialDatasets]

\* C13: a new root query replaces the graph. Whenever the explorer holds an
\* initialized graph of another (question, hits) pair than the current one,
\* the graph is eventually seeded again from the current pair.
C13_NewQueryReplacesGraph ==
  (isInitialized /\ nodes # <<>> /\ ~HoldsCurrent) ~> HoldsCurrent

\* C14: expand never fails observably. Whatever the resolver returns (a list,
\* nothing, a malformed payload, a rejection), no error leaves the expand
\* operation: the outcome shows in the state of the nodes and nowhere else.
C14_FailureOnlyInNodeState == ~renderError

\* C15: layout of expansion children. Child i (0-based) of n under a parent at
\* (px, py) is placed at x = px + (i - (n-1)/2) * 320, y = py + 280, whatever
\* the datasets and the random child counts are; for odd n the middle child
\* has x = px.  (SPACING_X is half of the 320, so the x are compared doubled.)
C15_ChildLayout ==
  [][\A r \in BagToSet(pending) : \A n \in 1..MaxLayoutChildren :
       \A counts \in RandomCounts(n) :
         ResolveSimilar(r, LayoutList(n), counts) =>
           LET parent == nodes[findIndex(nodes, r.datasetId)].position
           IN \A i \in 0..(n - 1) :
                LET child == nodes'[Len(nodes) + i + 1].position
                IN /\ 2 * child.x = 2 * parent.x + (2 * i - (n - 1)) * (2 * SPACING_X)
                   /\ child.y = parent.y + ROW_HEIGHT
                   /\ (2 * i = n - 1) => child.x = parent.x]_vars

\* three children were placed under a parent away from the origin, and the
\* middle one is straight below it
C15_Witness ==
  /\ Len(nodes) = 5
  /\ nodes[2].position = [x |-> 130, y |-> 480]
  /\ \A i \in 3..5 : startsWith(nodes[i].id, "child-")
  /\ nodes[4].position = [x |-> 130, y |-> 480 + ROW_HEIGHT]
  /\ nodes[3].position.x < 130 /\ nodes[5].position.x > 130

\* C16: ids are unique. In every reachable state no two nodes have the same
\* id and no two edges have the same id.
C16_UniqueIds ==
  /\ \A i, j \in DOMAIN nodes : i # j => nodes[i].id # nodes[j].id
  /\ \A i, j \in DOMAIN edges : i # j => edges[i].id # edges[j].id

\* the nodes the edges into node i come from
parentsOf(i) == {edges[e].source : e \in {d \in DOMAIN edges : edges[d].target = nodes[i].id}}

\* nodes i and m show the same dataset under two different parents
Twins(i, m) ==
  /\ startsWith(nodes[i].id, "child-") /\ startsWith(nodes[m].id, "child-")
  /\ nodes[i].id # nodes[m].id
  /\ nodes[i].datasetId = nodes[m].datasetId
  /\ parentsOf(i) # {} /\ parentsOf(m) # {}
  /\ parentsOf(i) \cap parentsOf(m) = {}

\* C17: independent subtrees per parent. When one dataset shows as a node under
\* two different parents, expanding one of the two nodes leaves the expansion
\* state of the other alone: no step other than a reset changes both.
C17_IndependentSubtrees ==
  [][~handleReset =>
       \A i, m \in DOMAIN nodes :
         Twins(i, m) =>
           \/ expansionState(nodes'[i]) = expansionState(nodes[i])
           \/ expansionState(nodes'[m]) = expansionState(nodes[m])]_vars

\* C18: no dangling edges. In every reachable state the source and the target
\* of every edge are ids of nodes of the graph.
C18_NoDanglingEdges ==
  \A e \in DOMAIN edges :
    /\ \E i \in DOMAIN nodes : nodes[i].id = edges[e].source
    /\ \E i \in DOMAIN nodes : nodes[i].id = edges[e].target

\* after a reset a result has arrived for a dataset no node carries any more,
\* and a later expansion has added edges to the re-seeded graph
C18_Witness ==
  /\ \E d \in expandedNodes : Carrying(nodes, d) = {}
  /\ \E e \in DOMAIN edges : startsWith(edges[e].id, "edge-")
  /\ \E e \in DOMAIN edges : edges[e].source = "root"

\* the outcomes of a resolver call that the code settles in the nodes
Outcomes ==
  {[kind |-> "similar", similar |-> sim, counts |-> c] :
     sim \in SimilarLists \ {<<>>}, c \in RandomCounts(MaxChildren)}
  \cup {[kind |-> k, similar |-> <<>>, counts |-> <<>>] : k \in {"empty", "fail"}}

\* the state the result `out` of a call for datasetId leaves, from the state s
commit(s, datasetId, self, out) ==
  LET p == findIndex(s.nodes, datasetId)
  IN [nodes |->
        IF out.kind # "similar" THEN settleNodes(s.nodes, datasetId, 0)
        ELSE IF p = 0 THEN s.nodes
        ELSE settleNodes(s.nodes, datasetId, Len(out.similar))
               \o childNodes(s.nodes[p], datasetId, out.similar, out.counts, self),
      edges |->
        IF out.kind = "similar" /\ p # 0
          THEN s.edges \o childEdges(s.nodes[p], datasetId, out.similar)
          ELSE s.edges,
      expandedNodes |->
        IF out.kind = "similar" THEN s.expandedNodes \cup {datasetId}
        ELSE s.expandedNodes,
      loadingNodes |-> s.loadingNodes \ {datasetId}]

\* what the claim compares: the nodes and the edges as sets, and the two sets
Final(s) ==
  [nodes |-> {View(s.nodes)[i] : i \in DOMAIN s.nodes},
   edges |-> {s.edges[e] : e \in DOMAIN s.edges},
   pendingIds |-> s.loadingNodes,
   expandedIds |-> s.expandedNodes]

Current ==
  [nodes |-> nodes, edges |-> edges, expandedNodes |-> expandedNodes,
   loadingNodes |-> loadingNodes]

\* C19: concurrent expansions of different nodes do not conflict. With calls
\* for two different dataset ids in flight, the state after both results is
\* the same whichever result arrives first.
C19_ConcurrentCommitsCommute ==
  \A a, b \in Live :
    a.datasetId # b.datasetId =>
      \A oa, ob \in Outcomes :
        Final(commit(commit(Current, a.datasetId, a.self, oa), b.datasetId, b.self, ob))
          = Final(commit(commit(Current, b.datasetId, b.self, ob), a.datasetId, a.self, oa))

\* C20: the tracking sets agree with the nodes. expandedIds is the set of the
\* ids of the nodes (the root aside) that are expanded, and pendingIds is the
\* set of the ids of the nodes that are expanding.
C20_TrackingSetsAgree ==
  /\ expandedIds = {nodes[i].id : i \in {j \in DOMAIN nodes :
                       ~nodes[j].isRoot /\ expansionState(nodes[j]) = "expanded"}}
  /\ pendingIds = {nodes[i].id : i \in {j \in DOMAIN nodes :
                      expansionState(nodes[j]) = "expanding"}}

\* the root nodes of the graph
Roots == {i \in DOMAIN nodes : nodes[i].isRoot}

\* C21: exactly one root. An initialized graph has exactly one root node; it
\* has no datasetId, its id is never in pendingIds and it is never expanding;
\* no step but a reset changes the root node or adds an edge that leaves it.
C21_ExactlyOneRoot ==
  /\ [](nodes # <<>> =>
          /\ Cardinality(Roots) = 1
          /\ \A i \in Roots :
               /\ nodes[i].datasetId = NoId
               /\ nodes[i].id \notin pendingIds
               /\ expansionState(nodes[i]) # "expanding")
  /\ [][~handleReset =>
          \A i \in Roots :
            /\ nodes'[i] = nodes[i]
            /\ {e \in DOMAIN edges' : edges'[e].source = nodes[i].id}
                 = {e \in DOMAIN edges : edges[e].source = nodes[i].id}]_vars

\* expansions have settled with children and another is in flight
C21_Witness ==
  /\ Cardinality(Roots) = 1
  /\ Len(nodes) >= 4
  /\ expandedNodes # {}
  /\ loadingNodes # {}
  /\ \E e \in DOMAIN edges : edges[e].source # "root"

\* node i shows as expanding
Expanding(i) == i \in DOMAIN nodes /\ expansionState(nodes[i]) = "expanding"

\* node i has settled (a failure shows as expanded too), or a reset has
\* discarded it or seeded it afresh
SettledOrReset(i) ==
  \/ i \notin DOMAIN nodes
  \/ expansionState(nodes[i]) = "expanded"
  \/ i \in DOMAIN FreshNodes /\ View(nodes)[i] = FreshNodes[i]

\* C22: every begun expansion settles. Once an id is in pendingIds and its
\* resolver call returns or fails, the id eventually leaves pendingIds and the
\* node ends settled: no node is expanding for ever.
C22_EveryExpansionSettles ==
  /\ \A d \in DatasetIds : (d \in pendingIds) ~> (d \notin pendingIds)
  /\ \A i \in 1..MaxNodes : Expanding(i) ~> SettledOrReset(i)

\* C23: nodes and edges are removed only by reset. An expand call, a resolver
\* success, an empty result and a resolver failure leave every node and every
\* edge in the graph: the nodes and the edges only grow.
C23_RemovedOnlyByReset ==
  [][(~handleReset /\ ~renderError') =>
       /\ Len(nodes') >= Len(nodes)
       /\ \A i \in DOMAIN nodes : nodes'[i].id = nodes[i].id
       /\ Len(edges') >= Len(edges)
       /\ \A e \in DOMAIN edges : edges'[e] = edges[e]]_vars

\* the graph has grown by an expansion, a failure has settled a node and a
\* call is in flight
C23_Witness ==
  /\ Len(nodes) >= 4
  /\ Len(edges) >= 3
  /\ FailedNodes # {}
  /\ expandedNodes # {}
  /\ pending # EmptyBag

\* C24: initial hits and expandability. The node of a hit with an id carries
\* that id as datasetId and, until an expansion settles it, childCount 3; the
\* node of a hit without an id has childCount 0, is never expanding or
\* expanded, and no resolver call is ever made for it.
C24_InitialHitsExpandability ==
  nodes # <<>> =>
    \A i \in DOMAIN initialDatasets :
      LET n == nodes[i + 1]
      IN IF initialDatasets[i] # NoId
           THEN /\ n.datasetId = initialDatasets[i]
                /\ expansionState(n) = "collapsed" => n.childCount = 3
           ELSE /\ n.childCount = 0
                /\ expansionState(n) = "collapsed"
                /\ \A r \in BagToSet(pending) : r.datasetId # n.datasetId

\* of two hits one has an id and one has none; the first has been expanded,
\* its child is being expanded, and the tree has been reset before
C24_Witness ==
  /\ Len(initialDatasets) = 2
  /\ \E i \in DOMAIN initialDatasets : initialDatasets[i] = NoId
  /\ \E i \in DOMAIN initialDatasets :
       initialDatasets[i] # NoId /\ expansionState(nodes[i + 1]) = "expanded"
  /\ \E r \in BagToSet(pending) : r.stale
  /\ \E r \in BagToSet(pending) : ~r.stale

\* C25: completion signal. Every expansion that settles, by a result with
\* children, by an empty result or by a failure, is followed by the completion
\* signal (the re-fit of the viewport) for its id.
C25_CompletionSignal ==
  [][\A r \in BagToSet(pending) :
       (Settles(r) /\ ~renderError') => r.datasetId \in fitViewFor']_vars

\* the nodes whose expansion state or childCount a step changes
Touched ==
  {i \in DOMAIN nodes :
     \/ nodes'[i].isLoading # nodes[i].isLoading
     \/ nodes'[i].isExpanded # nodes[i].isExpanded
     \/ nodes'[i].childCount # nodes[i].childCount}

\* C26: frame of one expansion. Beginning, committing or failing the expansion
\* of a node changes the expansion state and the childCount of that node only,
\* and the position of no existing node.
C26_ExpansionFrame ==
  [][(~handleReset /\ ~renderError') =>
       /\ Cardinality(Touched) <= 1
       /\ \A i \in DOMAIN nodes : nodes'[i].position = nodes[i].position]_vars

\* the edges that lead to node i
incoming(i) == {e \in DOMAIN edges : edges[e].target = nodes[i].id}

\* C27: the graph is a tree rooted at the root. In an initialized graph the
\* root has no incoming edge, every other node has exactly one, and there is
\* one edge less than there are nodes.
C27_GraphIsTree ==
  nodes # <<>> =>
    /\ \A i \in DOMAIN nodes :
         Cardinality(incoming(i)) = IF nodes[i].isRoot THEN 0 ELSE 1
    /\ Len(edges) = Len(nodes) - 1

\* C28: the tracking sets refer to live nodes and live requests. Every id in
\* pendingIds or expandedIds is carried by a node of the graph, and an id
\* carried by a node has a resolver call in flight exactly if it is in
\* pendingIds (in every state of the mounted explorer).
C28_TrackingSetsLive ==
  Mounted =>
    /\ \A d \in pendingIds \cup expandedIds : Carrying(nodes, d) # {}
    /\ \A d \in DatasetIds :
         Carrying(nodes, d) # {} =>
           ((\E r \in BagToSet(pending) : r.datasetId = d) <=> d \in pendingIds)

\* C29: graph construction is deterministic. The nodes a resolver result
\* leaves, the childCount of the new children included, are the same in every
\* run that receives that result in that state.
C29_DeterministicConstruction ==
  \A r \in BagToSet(pending) : \A o1, o2 \in Outcomes :
    (o1.kind = o2.kind /\ o1.similar = o2.similar) =>
      View(commit(Current, r.datasetId, r.self, o1).nodes)
        = View(commit(Current, r.datasetId, r.self, o2).nodes)
====
